---- MODULE Spec2Model ----
(***************************************************************************)
(* The notebook parallel-async.ipynb: three code cells (Serial, Parallel,  *)
(* Async) that fetch the list URLS and print one line per target.  The     *)
(* cells are executed top to bottom on the same URLS.                      *)
(*                                                                         *)
(* The notebook fixes five URLs and max_workers=5.  The cells are run here *)
(* on every list of 1..MaxTargets targets drawn from five mock endpoints   *)
(* (duplicates allowed) and with every pool size 1..MaxWorkers, so that    *)
(* batches larger than the pool occur.  A fetch is a step that may take    *)
(* any time; a fetch that exceeds timeout=60 ends with a timeout error.    *)
(*                                                                         *)
(* Future.set_result / set_exception (state FINISHED and notification of   *)
(* the as_completed waiter, under the future's lock) is one step, and so   *)
(* is the snapshot as_completed takes while holding every future's lock.   *)
(***************************************************************************)
EXTENDS Integers, Sequences, FiniteSets, TLC

VARIABLES URLS, max_workers, cell, pc, k, state, result, work_queue,
          waiter_installed, finished_futures, finished, pending,
          stdout, raised, completed, done_at_call

vars == <<URLS, max_workers, cell, pc, k, state, result, work_queue,
          waiter_installed, finished_futures, finished, pending,
          stdout, raised, completed, done_at_call>>

(* ---------------------------- bounds ----------------------------------- *)
MaxTargets == 2

(* ------------------------ program constants ---------------------------- *)
MaxWorkers == 5

(* ----------------------------- inputs ---------------------------------- *)
\* Mock targets: A and C answer 200 with bodies of different sizes, B never
\* answers within the timeout, D does not resolve, E answers 403 with a body.
Urls == {"A", "B", "C", "D", "E"}

Endpoint(url) ==
    CASE url = "A" -> [kind |-> "ok",     size |-> 100]
      [] url = "B" -> [kind |-> "slow",   size |-> 0]
      [] url = "C" -> [kind |-> "ok",     size |-> 200]
      [] url = "D" -> [kind |-> "noname", size |-> 0]
      [] url = "E" -> [kind |-> "status", size |-> 50]

TargetLists == UNION {[1..n -> Urls] : n \in 1..MaxTargets}

PoolSizes == 1..MaxWorkers

N == Len(URLS)
Units == 1..N

(* ----------------------- the three HTTP clients ------------------------ *)
\* What a call returns: either a body (data) or a raised exception.
Returned(url, n) == [raises |-> FALSE, data |-> [from |-> url, size |-> n], exc |-> "none"]
Raised(e)        == [raises |-> TRUE,  data |-> [from |-> "none", size |-> 0], exc |-> e]

\* requests.get(url, timeout=60): a non-2xx answer is returned, not raised.
requests_get(url) ==
    LET ep == Endpoint(url) IN
    CASE ep.kind = "ok"     -> Returned(url, ep.size)
      [] ep.kind = "status" -> Returned(url, ep.size)
      [] ep.kind = "noname" -> Raised("NameResolutionError")
      [] ep.kind = "slow"   -> Raised("Timeout")

\* urllib.request.urlopen(url, timeout=timeout): a non-2xx answer raises
\* HTTPError.
urlopen(url) ==
    LET ep == Endpoint(url) IN
    CASE ep.kind = "ok"     -> Returned(url, ep.size)
      [] ep.kind = "status" -> Raised("HTTPError")
      [] ep.kind = "noname" -> Raised("URLError")
      [] ep.kind = "slow"   -> Raised("Timeout")

\* aiohttp session.get(url, timeout=60) + response.read(): a non-2xx answer
\* is returned, not raised.
session_get(url) ==
    LET ep == Endpoint(url) IN
    CASE ep.kind = "ok"     -> Returned(url, ep.size)
      [] ep.kind = "status" -> Returned(url, ep.size)
      [] ep.kind = "noname" -> Raised("ClientConnectorError")
      [] ep.kind = "slow"   -> Raised("Timeout")

\* The exceptions the clients raise are all subclasses of Exception.
ExceptionSubclasses ==
    {"NameResolutionError", "Timeout", "HTTPError", "URLError", "ClientConnectorError"}

\* Faulty variant: the except clause names a class that does not cover timeouts.
except_Exception_narrow(e) == e \in ExceptionSubclasses \ {"Timeout"}

\* `except Exception as exc`
except_Exception(e) == e \in ExceptionSubclasses

\* len(response.content) / len(data)
len(data) == data.size

(* ------------------------------ printing ------------------------------- *)
\* One printed line; idx is the position of the target in URLS (not printed,
\* kept to tell apart two units of the same URL).
PageLine(i, url, n)  == [idx |-> i, url |-> url, ok |-> TRUE,  bytes |-> n, exc |-> "none"]
ExcLine(i, url, e)   == [idx |-> i, url |-> url, ok |-> FALSE, bytes |-> 0, exc |-> e]

print(c, line) == [stdout EXCEPT ![c] = Append(@, line)]

NoResult == [raises |-> FALSE, data |-> [from |-> "none", size |-> 0], exc |-> "unset"]

FreshUnits(n) ==
    /\ state = [i \in 1..n |-> "new"]
    /\ result = [i \in 1..n |-> NoResult]

Init ==
    /\ URLS \in TargetLists
    /\ max_workers \in PoolSizes
    /\ cell = "serial"
    /\ pc = "loop"
    /\ k = 1
    /\ FreshUnits(Len(URLS))
    /\ work_queue = <<>>
    /\ waiter_installed = FALSE
    /\ finished_futures = <<>>
    /\ finished = <<>>
    /\ pending = {}
    /\ stdout = [c \in {"serial", "parallel", "async"} |-> <<>>]
    /\ raised = "none"
    /\ completed = <<>>
    /\ done_at_call = {}

(* ============================ Serial cell ============================== *)
\* main(): for url in URLS: load_url(url) -- the call requests.get is issued.
SerialCall ==
    /\ cell = "serial" /\ pc = "loop" /\ k <= N
    /\ state[k] = "new"
    /\ state' = [state EXCEPT ![k] = "running"]
    /\ pc' = "get"
    /\ UNCHANGED <<URLS, max_workers, cell, k, result, work_queue,
                   waiter_installed, finished_futures, finished, pending,
                   stdout, raised, completed, done_at_call>>

\* Faulty variant: after an exception is printed the loop is left.
SerialLoadUrl_stops_on_error ==
    /\ cell = "serial" /\ pc = "get"
    /\ LET url == URLS[k]
           r   == requests_get(url)
       IN  /\ completed' = Append(completed, k)
           /\ state' = [state EXCEPT ![k] = "reported"]
           /\ pc' = "loop"
           /\ IF ~r.raises
                THEN /\ stdout' = print("serial", PageLine(k, url, len(r.data)))
                     /\ k' = k + 1
                ELSE /\ stdout' = print("serial", ExcLine(k, url, r.exc))
                     /\ k' = Len(URLS) + 1
    /\ UNCHANGED <<URLS, max_workers, cell, result, work_queue,
                   waiter_installed, finished_futures, finished, pending,
                   raised, done_at_call>>

\* load_url(url): requests.get returns or raises; one line is printed.
SerialLoadUrl ==
    /\ cell = "serial" /\ pc = "get"
    /\ LET url == URLS[k]
           r   == requests_get(url)
       IN  /\ completed' = Append(completed, k)
           /\ IF ~r.raises
                THEN /\ stdout' = print("serial", PageLine(k, url, len(r.data)))
                     /\ state' = [state EXCEPT ![k] = "reported"]
                     /\ pc' = "loop" /\ k' = k + 1
                     /\ UNCHANGED raised
                ELSE IF except_Exception(r.exc)
                THEN /\ stdout' = print("serial", ExcLine(k, url, r.exc))
                     /\ state' = [state EXCEPT ![k] = "reported"]
                     /\ pc' = "loop" /\ k' = k + 1
                     /\ UNCHANGED raised
                ELSE /\ raised' = r.exc
                     /\ state' = [state EXCEPT ![k] = "finished"]
                     /\ pc' = "traceback"
                     /\ UNCHANGED <<stdout, k>>
    /\ UNCHANGED <<URLS, max_workers, cell, result, work_queue,
                   waiter_installed, finished_futures, finished, pending,
                   done_at_call>>

\* The for loop is exhausted: main() returns.
SerialReturn ==
    /\ cell = "serial" /\ pc = "loop" /\ k > N
    /\ pc' = "done"
    /\ UNCHANGED <<URLS, max_workers, cell, k, state, result, work_queue,
                   waiter_installed, finished_futures, finished, pending,
                   stdout, raised, completed, done_at_call>>

(* =========================== Parallel cell ============================= *)
Running == {i \in Units : state[i] = "running"}

\* Faulty variant: the finished futures are not reversed before being popped.
Reverse_omitted(s) == s

Reverse(s) == [i \in 1..Len(s) |-> s[Len(s) + 1 - i]]

\* Faulty variant: a set is always listed in one fixed order.
ListsOf_one_order(S) ==
    {s \in [1..Cardinality(S) -> S] : \A i, j \in 1..Cardinality(S) : i < j => s[i] < s[j]}

\* list(a_set): the elements of the set in some order.
ListsOf(S) == {s \in [1..Cardinality(S) -> S] : \A i, j \in 1..Cardinality(S) : i # j => s[i] # s[j]}

\* {executor.submit(load_url, url, 60): url for url in URLS}, one submit:
\* a new PENDING future whose work item is put on the executor's queue.
Submit ==
    /\ cell = "parallel" /\ pc = "submit" /\ k <= N
    /\ state[k] = "new"
    /\ state' = [state EXCEPT ![k] = "pending"]
    /\ work_queue' = Append(work_queue, k)
    /\ k' = k + 1
    /\ UNCHANGED <<URLS, max_workers, cell, pc, result,
                   waiter_installed, finished_futures, finished, pending,
                   stdout, raised, completed, done_at_call>>

\* Faulty variant: a work item is only taken while no fetch is in flight.
WorkerStart_one_at_a_time ==
    /\ cell = "parallel"
    /\ work_queue # <<>>
    /\ {i \in 1..Len(URLS) : state[i] = "running"} = {}
    /\ state' = [state EXCEPT ![Head(work_queue)] = "running"]
    /\ work_queue' = Tail(work_queue)
    /\ UNCHANGED <<URLS, max_workers, cell, pc, k, result,
                   waiter_installed, finished_futures, finished, pending,
                   stdout, raised, completed, done_at_call>>

\* Faulty variant: a work item is taken whatever the number of busy threads.
WorkerStart_unbounded ==
    /\ cell = "parallel"
    /\ work_queue # <<>>
    /\ state' = [state EXCEPT ![Head(work_queue)] = "running"]
    /\ work_queue' = Tail(work_queue)
    /\ UNCHANGED <<URLS, max_workers, cell, pc, k, result,
                   waiter_installed, finished_futures, finished, pending,
                   stdout, raised, completed, done_at_call>>

\* A pool thread takes the next work item; at most max_workers threads exist.
WorkerStart ==
    /\ cell = "parallel"
    /\ work_queue # <<>>
    /\ Cardinality(Running) < max_workers
    /\ state' = [state EXCEPT ![Head(work_queue)] = "running"]
    /\ work_queue' = Tail(work_queue)
    /\ UNCHANGED <<URLS, max_workers, cell, pc, k, result,
                   waiter_installed, finished_futures, finished, pending,
                   stdout, raised, completed, done_at_call>>

\* Faulty variant: a failing fetch cancels the work items still queued.
WorkerFinish_fail_fast(i) ==
    /\ cell = "parallel"
    /\ state[i] = "running"
    /\ LET r == urlopen(URLS[i])
           cancelled == IF r.raises THEN {j \in 1..Len(URLS) : state[j] = "pending"} ELSE {}
       IN  /\ state' = [j \in 1..Len(URLS) |->
                          IF j = i \/ j \in cancelled THEN "finished" ELSE state[j]]
           /\ result' = [j \in 1..Len(URLS) |->
                          IF j = i THEN r
                          ELSE IF j \in cancelled THEN Raised("CancelledError")
                          ELSE result[j]]
           /\ work_queue' = IF r.raises THEN <<>> ELSE work_queue
    /\ finished_futures' = IF waiter_installed THEN Append(finished_futures, i)
                           ELSE finished_futures
    /\ completed' = Append(completed, i)
    /\ UNCHANGED <<URLS, max_workers, cell, pc, k,
                   waiter_installed, finished, pending,
                   stdout, raised, done_at_call>>

\* Faulty variant: a finishing future does not notify the as_completed waiter.
WorkerFinish_no_notify(i) ==
    /\ cell = "parallel"
    /\ state[i] = "running"
    /\ state' = [state EXCEPT ![i] = "finished"]
    /\ result' = [result EXCEPT ![i] = urlopen(URLS[i])]
    /\ completed' = Append(completed, i)
    /\ UNCHANGED <<URLS, max_workers, cell, pc, k, work_queue,
                   waiter_installed, finished_futures, finished, pending,
                   stdout, raised, done_at_call>>

\* Faulty variant: the pool threads store what they fetched in one slot
\* shared by all futures.
WorkerFinish_shared_slot(i) ==
    /\ cell = "parallel"
    /\ state[i] = "running"
    /\ state' = [state EXCEPT ![i] = "finished"]
    /\ result' = [j \in 1..Len(URLS) |-> urlopen(URLS[i])]
    /\ finished_futures' = IF waiter_installed THEN Append(finished_futures, i)
                           ELSE finished_futures
    /\ completed' = Append(completed, i)
    /\ UNCHANGED <<URLS, max_workers, cell, pc, k, work_queue,
                   waiter_installed, finished, pending,
                   stdout, raised, done_at_call>>

\* load_url(url, 60) ends in the pool thread: the future gets its result or
\* its exception, becomes FINISHED and notifies the as_completed waiter, if
\* one is installed.
WorkerFinish(i) ==
    /\ cell = "parallel"
    /\ state[i] = "running"
    /\ state' = [state EXCEPT ![i] = "finished"]
    /\ result' = [result EXCEPT ![i] = urlopen(URLS[i])]
    /\ finished_futures' = IF waiter_installed THEN Append(finished_futures, i)
                           ELSE finished_futures
    /\ completed' = Append(completed, i)
    /\ UNCHANGED <<URLS, max_workers, cell, pc, k, work_queue,
                   waiter_installed, finished, pending,
                   stdout, raised, done_at_call>>

\* Faulty variant: the futures already finished at the call are not yielded.
AsCompleted_skips_finished ==
    /\ cell = "parallel" /\ pc = "submit" /\ k > Len(URLS)
    /\ LET fin == {i \in 1..Len(URLS) : state[i] = "finished"} IN
       /\ finished' = <<>>
       /\ pending' = (1..Len(URLS)) \ fin
       /\ done_at_call' = fin
    /\ waiter_installed' = TRUE
    /\ pc' = "iterate"
    /\ UNCHANGED <<URLS, max_workers, cell, k, state, result, work_queue,
                   finished_futures, stdout, raised, completed>>

\* concurrent.futures.as_completed(future_to_url) is called: the futures that
\* are already FINISHED are listed (in set order), the others are pending
\* and get the waiter.
AsCompleted ==
    /\ cell = "parallel" /\ pc = "submit" /\ k > N
    /\ LET fin == {i \in Units : state[i] = "finished"} IN
       /\ finished' \in ListsOf(fin)
       /\ pending' = Units \ fin
       /\ done_at_call' = fin
    /\ waiter_installed' = TRUE
    /\ pc' = "iterate"
    /\ UNCHANGED <<URLS, max_workers, cell, k, state, result, work_queue,
                   finished_futures, stdout, raised, completed>>

\* Faulty variant: the data printed is taken from another finished future than the
\* one that was yielded.
LoopBody_other_result ==
    /\ cell = "parallel" /\ pc = "iterate"
    /\ finished # <<>>
    /\ LET future == finished[Len(finished)]
           url    == URLS[future]
           r      == result[finished[1]]
       IN  /\ finished' = SubSeq(finished, 1, Len(finished) - 1)
           /\ pending' = pending \ {future}
           /\ IF ~r.raises
                THEN /\ stdout' = print("parallel", PageLine(future, url, len(r.data)))
                     /\ state' = [state EXCEPT ![future] = "reported"]
                     /\ UNCHANGED <<raised, pc>>
                ELSE IF except_Exception(r.exc)
                THEN /\ stdout' = print("parallel", ExcLine(future, url, r.exc))
                     /\ state' = [state EXCEPT ![future] = "reported"]
                     /\ UNCHANGED <<raised, pc>>
                ELSE /\ raised' = r.exc
                     /\ pc' = "traceback"
                     /\ UNCHANGED <<stdout, state>>
    /\ UNCHANGED <<URLS, max_workers, cell, k, result, work_queue,
                   waiter_installed, finished_futures,
                   completed, done_at_call>>

\* Faulty variant: the data printed is that of the future that finished
\* last (a slot shared by the pool threads), not that of the yielded one.
LoopBody_last_completed ==
    /\ cell = "parallel" /\ pc = "iterate"
    /\ finished # <<>>
    /\ LET future == finished[Len(finished)]
           url    == URLS[future]
           r      == result[completed[Len(completed)]]
       IN  /\ finished' = SubSeq(finished, 1, Len(finished) - 1)
           /\ pending' = pending \ {future}
           /\ IF ~r.raises
                THEN /\ stdout' = print("parallel", PageLine(future, url, len(r.data)))
                     /\ state' = [state EXCEPT ![future] = "reported"]
                     /\ UNCHANGED <<raised, pc>>
                ELSE IF except_Exception(r.exc)
                THEN /\ stdout' = print("parallel", ExcLine(future, url, r.exc))
                     /\ state' = [state EXCEPT ![future] = "reported"]
                     /\ UNCHANGED <<raised, pc>>
                ELSE /\ raised' = r.exc
                     /\ pc' = "traceback"
                     /\ UNCHANGED <<stdout, state>>
    /\ UNCHANGED <<URLS, max_workers, cell, k, result, work_queue,
                   waiter_installed, finished_futures,
                   completed, done_at_call>>

\* Faulty variant: the loop body drops the future's result once printed.
LoopBody_releases_future ==
    /\ cell = "parallel" /\ pc = "iterate"
    /\ finished # <<>>
    /\ LET future == finished[Len(finished)]
           url    == URLS[future]
           r      == result[future]
       IN  /\ finished' = SubSeq(finished, 1, Len(finished) - 1)
           /\ pending' = pending \ {future}
           /\ result' = [result EXCEPT ![future] = NoResult]
           /\ IF ~r.raises
                THEN /\ stdout' = print("parallel", PageLine(future, url, len(r.data)))
                     /\ state' = [state EXCEPT ![future] = "reported"]
                     /\ UNCHANGED <<raised, pc>>
                ELSE IF except_Exception(r.exc)
                THEN /\ stdout' = print("parallel", ExcLine(future, url, r.exc))
                     /\ state' = [state EXCEPT ![future] = "reported"]
                     /\ UNCHANGED <<raised, pc>>
                ELSE /\ raised' = r.exc
                     /\ pc' = "traceback"
                     /\ UNCHANGED <<stdout, state>>
    /\ UNCHANGED <<URLS, max_workers, cell, k, work_queue,
                   waiter_installed, finished_futures,
                   completed, done_at_call>>

\* One turn of `for future in as_completed(...)`: the next finished future
\* is yielded, url = future_to_url[future], future.result() returns the data
\* or raises, and one line is printed.
LoopBody ==
    /\ cell = "parallel" /\ pc = "iterate"
    /\ finished # <<>>
    /\ LET future == finished[Len(finished)]
           url    == URLS[future]
           r      == result[future]
       IN  /\ finished' = SubSeq(finished, 1, Len(finished) - 1)
           /\ pending' = pending \ {future}
           /\ IF ~r.raises
                THEN /\ stdout' = print("parallel", PageLine(future, url, len(r.data)))
                     /\ state' = [state EXCEPT ![future] = "reported"]
                     /\ UNCHANGED <<raised, pc>>
                ELSE IF except_Exception(r.exc)
                THEN /\ stdout' = print("parallel", ExcLine(future, url, r.exc))
                     /\ state' = [state EXCEPT ![future] = "reported"]
                     /\ UNCHANGED <<raised, pc>>
                ELSE /\ raised' = r.exc
                     /\ pc' = "traceback"
                     /\ UNCHANGED <<stdout, state>>
    /\ UNCHANGED <<URLS, max_workers, cell, k, result, work_queue,
                   waiter_installed, finished_futures,
                   completed, done_at_call>>

\* Faulty variant: the wait returns only when every pending future has finished.
WaitForFinished_all_completed ==
    /\ cell = "parallel" /\ pc = "iterate"
    /\ finished = <<>> /\ pending # {}
    /\ finished_futures # <<>>
    /\ \A i \in pending : state[i] = "finished"
    /\ finished' = Reverse(finished_futures)
    /\ finished_futures' = <<>>
    /\ UNCHANGED <<URLS, max_workers, cell, pc, k, state, result, work_queue,
                   waiter_installed, pending,
                   stdout, raised, completed, done_at_call>>

\* as_completed has nothing left to yield and futures are pending: it waits
\* for the waiter's event and takes the futures that finished meanwhile.
WaitForFinished ==
    /\ cell = "parallel" /\ pc = "iterate"
    /\ finished = <<>> /\ pending # {}
    /\ finished_futures # <<>>
    /\ finished' = Reverse(finished_futures)
    /\ finished_futures' = <<>>
    /\ UNCHANGED <<URLS, max_workers, cell, pc, k, state, result, work_queue,
                   waiter_installed, pending,
                   stdout, raised, completed, done_at_call>>

\* Faulty variant: the loop ends as soon as nothing is ready to be yielded.
ExecutorExit_no_wait ==
    /\ cell = "parallel" /\ pc = "iterate"
    /\ finished = <<>>
    /\ pc' = "done"
    /\ UNCHANGED <<URLS, max_workers, cell, k, state, result, work_queue,
                   waiter_installed, finished_futures, finished, pending,
                   stdout, raised, completed, done_at_call>>

\* as_completed is exhausted; the with block exits: executor.shutdown
\* (wait=True) joins the pool threads.
ExecutorExit ==
    /\ cell = "parallel" /\ pc = "iterate"
    /\ finished = <<>> /\ pending = {}
    /\ work_queue = <<>> /\ Running = {}
    /\ pc' = "done"
    /\ UNCHANGED <<URLS, max_workers, cell, k, state, result, work_queue,
                   waiter_installed, finished_futures, finished, pending,
                   stdout, raised, completed, done_at_call>>

(* ============================= Async cell ============================== *)
\* main(): tasks = [load_url(session, url) for url in URLS];
\* asyncio.gather(*tasks) wraps each coroutine in a task and schedules it.
Gather ==
    /\ cell = "async" /\ pc = "gather"
    /\ state' = [i \in Units |-> "pending"]
    /\ work_queue' = [i \in Units |-> i]
    /\ pc' = "await"
    /\ UNCHANGED <<URLS, max_workers, cell, k, result,
                   waiter_installed, finished_futures, finished, pending,
                   stdout, raised, completed, done_at_call>>

\* The event loop runs the first step of the next scheduled task:
\* load_url issues session.get and suspends.
TaskStart ==
    /\ cell = "async" /\ pc = "await"
    /\ work_queue # <<>>
    /\ state' = [state EXCEPT ![Head(work_queue)] = "running"]
    /\ work_queue' = Tail(work_queue)
    /\ UNCHANGED <<URLS, max_workers, cell, pc, k, result,
                   waiter_installed, finished_futures, finished, pending,
                   stdout, raised, completed, done_at_call>>

\* Faulty variant: the except clause swallows the exception without
\* printing.
AsyncLoadUrl_silent(i) ==
    /\ cell = "async" /\ pc = "await"
    /\ work_queue = <<>>
    /\ state[i] = "running"
    /\ LET url == URLS[i]
           r   == session_get(url)
       IN  /\ completed' = Append(completed, i)
           /\ state' = [state EXCEPT ![i] = "reported"]
           /\ stdout' = IF r.raises THEN stdout
                        ELSE print("async", PageLine(i, url, len(r.data)))
    /\ UNCHANGED <<URLS, max_workers, cell, pc, k, result, work_queue,
                   waiter_installed, finished_futures, finished, pending,
                   raised, done_at_call>>

\* The event loop resumes a suspended load_url: the body was read or an
\* exception is thrown into the coroutine; the coroutine prints its line.
\* The scheduled first steps run before any I/O callback.
AsyncLoadUrl(i) ==
    /\ cell = "async" /\ pc = "await"
    /\ work_queue = <<>>
    /\ state[i] = "running"
    /\ LET url == URLS[i]
           r   == session_get(url)
       IN  /\ completed' = Append(completed, i)
           /\ IF ~r.raises
                THEN /\ stdout' = print("async", PageLine(i, url, len(r.data)))
                     /\ state' = [state EXCEPT ![i] = "reported"]
                     /\ UNCHANGED <<raised, pc>>
                ELSE IF except_Exception(r.exc)
                THEN /\ stdout' = print("async", ExcLine(i, url, r.exc))
                     /\ state' = [state EXCEPT ![i] = "reported"]
                     /\ UNCHANGED <<raised, pc>>
                ELSE /\ raised' = r.exc
                     /\ state' = [state EXCEPT ![i] = "finished"]
                     /\ pc' = "traceback"
                     /\ UNCHANGED stdout
    /\ UNCHANGED <<URLS, max_workers, cell, k, result, work_queue,
                   waiter_installed, finished_futures, finished, pending,
                   done_at_call>>

\* Every task is done: `await asyncio.gather(*tasks)` returns, the session
\* is closed and main() returns.
GatherReturn ==
    /\ cell = "async" /\ pc = "await"
    /\ \A i \in Units : state[i] = "reported"
    /\ pc' = "done"
    /\ UNCHANGED <<URLS, max_workers, cell, k, state, result, work_queue,
                   waiter_installed, finished_futures, finished, pending,
                   stdout, raised, completed, done_at_call>>

(* ============================ the notebook ============================= *)
NextCellOf(c) == IF c = "serial" THEN "parallel" ELSE "async"
EntryOf(c) == IF c = "parallel" THEN "submit" ELSE "gather"

\* The cell has finished without a traceback: the next code cell is run on
\* the same URLS.  The globals of the finished cell stay in the kernel: the
\* futures of future_to_url keep their results.
RunNextCell ==
    /\ pc = "done" /\ cell # "async"
    /\ cell' = NextCellOf(cell)
    /\ pc' = EntryOf(NextCellOf(cell))
    /\ k' = 1
    /\ state' = [i \in Units |-> "new"]
    /\ work_queue' = <<>>
    /\ waiter_installed' = FALSE
    /\ finished_futures' = <<>>
    /\ finished' = <<>>
    /\ pending' = {}
    /\ completed' = <<>>
    /\ done_at_call' = {}
    /\ UNCHANGED <<URLS, max_workers, result, stdout, raised>>

Next ==
    \/ SerialCall \/ SerialLoadUrl \/ SerialReturn
    \/ Submit \/ WorkerStart \/ (\E i \in Units : WorkerFinish(i))
    \/ AsCompleted \/ LoopBody \/ WaitForFinished \/ ExecutorExit
    \/ Gather \/ TaskStart \/ (\E i \in Units : AsyncLoadUrl(i)) \/ GatherReturn
    \/ RunNextCell

Spec == Init /\ [][Next]_vars

\* Threads and the event loop are scheduled, and every fetch ends (it
\* returns, raises, or its timeout of 60 fires): the run does not halt while
\* a step is possible.
FairSpec == Spec /\ WF_vars(Next)

\* Only the main thread of the Parallel cell is scheduled; no fetch is
\* assumed ever to end.
Aggregator == Submit \/ AsCompleted \/ LoopBody \/ WaitForFinished
StreamSpec == Spec /\ WF_vars(Aggregator)

(* ======================= vocabulary of the claims ====================== *)
CellNames == {"serial", "parallel", "async"}
Concurrent == {"parallel", "async"}

CellOrder(c) == CASE c = "serial" -> 1 [] c = "parallel" -> 2 [] c = "async" -> 3

\* The batch of cell c has finished.
CellDone(c) == CellOrder(cell) > CellOrder(c) \/ (cell = c /\ pc = "done")

NotebookDone == cell = "async" /\ pc = "done"

\* The positions of stdout[c] that report unit i.
LinesOf(c, i) == {p \in 1..Len(stdout[c]) : stdout[c][p].idx = i}

\* The position at which unit i is reported in the running cell (0: not yet).
PosOf(i) == IF LinesOf(cell, i) = {} THEN 0 ELSE CHOOSE p \in LinesOf(cell, i) : TRUE

Client(c, url) ==
    CASE c = "serial"   -> requests_get(url)
      [] c = "parallel" -> urlopen(url)
      [] c = "async"    -> session_get(url)

\* The line that the fetch of unit i alone determines in cell c.
OwnLine(c, i) ==
    LET r == Client(c, URLS[i]) IN
    IF r.raises THEN ExcLine(i, URLS[i], r.exc)
                ELSE PageLine(i, URLS[i], Endpoint(URLS[i]).size)

Occurrences(url) == Cardinality({i \in Units : URLS[i] = url})
LinesFor(c, url) == Cardinality({p \in 1..Len(stdout[c]) : stdout[c][p].url = url})

(* ================================ C1 =================================== *)
\* C1: when the batch of the thread-pool cell or of the asyncio cell has
\* finished, every submitted target has exactly one reported outcome (none
\* has zero, none has two), also when a URL occurs twice in URLS.
C1_Cardinality ==
    \A c \in Concurrent :
        CellDone(c) =>
            /\ Len(stdout[c]) = N
            /\ \A i \in Units : Cardinality(LinesOf(c, i)) = 1
            /\ \A u \in Urls : LinesFor(c, u) = Occurrences(u)

C1_Witness ==
    /\ NotebookDone
    /\ N = 2 /\ URLS[1] = URLS[2]
    /\ Len(stdout["parallel"]) = 2 /\ Len(stdout["async"]) = 2

(* ================================ C2 =================================== *)
\* The step in which unit i ends in failure or has its failure reported.
FailStep(i) ==
    /\ state[i] \in {"running", "finished"}
    /\ state'[i] # state[i]
    /\ Client(cell, URLS[i]).raises

\* Nothing of another unit changes, and nothing is aborted.
OthersUntouched(i) ==
    /\ \A j \in Units \ {i} :
          /\ state'[j] = state[j]
          /\ result'[j] = result[j]
          /\ (j \in pending') = (j \in pending)
          /\ LinesOf(cell, j) = {p \in 1..Len(stdout'[cell]) : stdout'[cell][p].idx = j}
    /\ pc' # "traceback"
    /\ raised' = raised

\* C2: a step in which one unit fails (or its failure is reported) changes
\* the state, the stored result and the reported lines of no other unit and
\* aborts nothing; the failure is printed for its own target, and every
\* line printed for a unit is the one its own fetch determines.
C2_FailureIsolation ==
    /\ [][\A i \in Units : FailStep(i) => OthersUntouched(i)]_vars
    /\ [](\A c \in CellNames : \A p \in 1..Len(stdout[c]) :
             stdout[c][p] = OwnLine(c, stdout[c][p].idx))

C2_Witness ==
    /\ cell = "parallel" /\ N = 2
    /\ \E i, j \in Units :
          /\ i # j
          /\ state[i] = "reported" /\ ~stdout["parallel"][PosOf(i)].ok
          /\ state[j] = "reported" /\ stdout["parallel"][PosOf(j)].ok
          /\ PosOf(i) < PosOf(j)

(* ================================ C3 =================================== *)
\* C3: under fair scheduling every batch reaches its finished state (the
\* three cells all finish), also when every target fails; no state is
\* reached in which a batch has failed with a traceback or is stuck.
C3_BatchCompletes ==
    /\ <>NotebookDone
    /\ [](pc # "traceback" /\ raised = "none")
    /\ [](NotebookDone \/ ENABLED Next)

C3_Witness ==
    /\ NotebookDone
    /\ N = 2
    /\ \A c \in CellNames : \A p \in 1..Len(stdout[c]) : ~stdout[c][p].ok

(* ================================ C4 =================================== *)
\* C4: whenever the running cell's batch is finished, every unit of work
\* has terminated and its outcome is reported: none is queued, in flight,
\* or finished but unreported.
C4_NoEarlyFinish ==
    pc = "done" =>
        /\ \A i \in Units : state[i] = "reported" /\ LinesOf(cell, i) # {}
        /\ work_queue = <<>> /\ finished = <<>> /\ finished_futures = <<>>
        /\ pending = {}

C4_Witness ==
    /\ cell = "parallel" /\ pc = "done" /\ N = 2
    /\ completed = <<2, 1>>

(* ================================ C5 =================================== *)
\* C5: no exception escapes from a batch (no traceback), and a unit whose
\* fetch raised is reported by the failure line of its own target carrying
\* that exception; once a batch is finished every raising unit has its line.
C5_ErrorCapture ==
    /\ raised = "none" /\ pc # "traceback"
    /\ \A c \in CellNames : \A p \in 1..Len(stdout[c]) :
          LET l == stdout[c][p] r == Client(c, URLS[l.idx]) IN
          /\ l.ok = ~r.raises
          /\ r.raises => l = ExcLine(l.idx, URLS[l.idx], r.exc)
    /\ \A c \in CellNames : CellDone(c) =>
          \A i \in Units : Client(c, URLS[i]).raises => LinesOf(c, i) # {}

C5_Witness ==
    /\ NotebookDone /\ N = 2
    /\ \A c \in CellNames :
          \E p, q \in 1..Len(stdout[c]) : ~stdout[c][p].ok /\ stdout[c][q].ok
(* ================================ C6 =================================== *)
\* C6: in the thread-pool cell a finished unit is eventually reported even
\* if no other fetch ever ends (only the main thread is assumed to run); in
\* the serial and asyncio cells a unit prints its own line in the step in
\* which its fetch ends, so no finished-but-unreported unit exists there.
C6_Streaming ==
    /\ \A i \in 1..MaxTargets :
          (cell = "parallel" /\ i \in Units /\ state[i] = "finished")
             ~> (cell = "parallel" /\ i \in Units /\ state[i] = "reported")
    /\ [](cell \in {"serial", "async"} => \A i \in Units : state[i] # "finished")

\* One outcome is reported while another unit is still in flight.
C6_Witness ==
    /\ cell = "parallel"
    /\ \E i, j \in Units : state[i] = "reported" /\ state[j] = "running"

(* ================================ C7 =================================== *)
\* C7 as claimed: in the running cell, if X's unit completed before Y's
\* and Y is reported, X was reported before Y.
C7_CompletionOrder ==
    \A p, q \in 1..Len(completed) :
        (p < q /\ PosOf(completed[q]) # 0) =>
            (PosOf(completed[p]) # 0 /\ PosOf(completed[p]) < PosOf(completed[q]))

\* C7 amended: the same, for every Y whose future finished after
\* as_completed was called; the futures already finished at that call are
\* reported before all others, in an order not tied to their completion.
C7_CompletionOrderAfterCall ==
    /\ \A p, q \in 1..Len(completed) :
          (p < q /\ completed[q] \notin done_at_call /\ PosOf(completed[q]) # 0) =>
              (PosOf(completed[p]) # 0 /\ PosOf(completed[p]) < PosOf(completed[q]))
    /\ \A x \in done_at_call : \A y \in Units \ done_at_call :
          PosOf(y) # 0 => (PosOf(x) # 0 /\ PosOf(x) < PosOf(y))

C7_Witness ==
    /\ cell = "parallel" /\ N = 2
    /\ done_at_call = {}
    /\ completed = <<2, 1>>
    /\ PosOf(2) = 1 /\ PosOf(1) = 2

(* ================================ C8 =================================== *)
Slow(i) == Endpoint(URLS[i]).kind = "slow"

\* A slow unit is reported by a failure line that names the timeout, and
\* every other line is the one its own fetch determines.
TimeoutOutcomes ==
    \A c \in CellNames : \A p \in 1..Len(stdout[c]) :
        LET l == stdout[c][p] IN
        /\ Slow(l.idx) => l = ExcLine(l.idx, URLS[l.idx], "Timeout")
        /\ ~Slow(l.idx) => l = OwnLine(c, l.idx)

StartNext == WorkerStart \/ TaskStart

\* C8 as claimed: besides the outcomes, while a slow unit is in flight the
\* next queued target is never held back, whatever the pool bound.
C8_NoDelayAnyPool ==
    /\ TimeoutOutcomes
    /\ \A i, j \in Units :
          (Slow(i) /\ state[i] = "running" /\ state[j] = "pending"
             /\ work_queue # <<>> /\ Head(work_queue) = j)
          => ENABLED StartNext

\* C8 amended: the outcomes as claimed; while a slow unit is in flight, a
\* unit in flight can end, and the next queued target can start in the
\* asyncio cell always and in the thread-pool cell whenever fewer than
\* max_workers fetches are in flight (otherwise it waits for a worker).
C8_TimeoutIndependence ==
    /\ TimeoutOutcomes
    /\ \A i, j \in Units :
          (Slow(i) /\ state[i] = "running" /\ j # i) =>
             /\ (cell = "parallel" /\ state[j] = "running")
                   => ENABLED WorkerFinish(j)
             /\ (cell = "async" /\ state[j] = "running" /\ work_queue = <<>>)
                   => ENABLED AsyncLoadUrl(j)
             /\ (state[j] = "pending" /\ work_queue # <<>> /\ Head(work_queue) = j
                   /\ (cell = "parallel" => Cardinality(Running) < max_workers))
                   => ENABLED StartNext

C8_Witness ==
    /\ cell = "parallel" /\ N = 2
    /\ \E i, j \in Units :
          /\ Slow(i) /\ state[i] = "running"
          /\ state[j] = "reported" /\ stdout["parallel"][PosOf(j)].ok

(* ================================ C9 =================================== *)
LineOf(c, i) == stdout[c][CHOOSE p \in LinesOf(c, i) : TRUE]

\* C9 as claimed: when the three cells have run on the same URLS and the
\* same endpoints, every target has the same success/failure class and the
\* same byte count in the serial, thread-pool and asyncio output.
C9_VariantsAgree ==
    NotebookDone =>
        \A i \in Units : \A c1, c2 \in CellNames :
            /\ LineOf(c1, i).ok = LineOf(c2, i).ok
            /\ LineOf(c1, i).bytes = LineOf(c2, i).bytes

(* ================================ C10 ================================== *)
\* C10: a target whose endpoint answers 200 within the timeout is reported
\* by a success line, never a failure line, whose byte count is the size
\* of the body received for that very target; the data a future stores
\* comes from its own URL; a finished batch has that line for every such
\* target.
C10_PayloadSize ==
    /\ \A c \in CellNames : \A p \in 1..Len(stdout[c]) :
          LET l == stdout[c][p] ep == Endpoint(URLS[l.idx]) IN
          ep.kind = "ok" => (l.ok /\ l.bytes = ep.size /\ l.url = URLS[l.idx])
    /\ \A i \in Units :
          (Endpoint(URLS[i]).kind = "ok" /\ result[i] # NoResult) =>
              (~result[i].raises /\ result[i].data.from = URLS[i])
    /\ \A c \in CellNames : CellDone(c) =>
          \A i \in Units : Endpoint(URLS[i]).kind = "ok" => LinesOf(c, i) # {}

C10_Witness ==
    /\ cell = "parallel" /\ pc = "done"
    /\ \E p, q \in 1..Len(stdout["parallel"]) :
          /\ stdout["parallel"][p].ok /\ stdout["parallel"][p].bytes = 100
          /\ stdout["parallel"][q].ok /\ stdout["parallel"][q].bytes = 200
(* ================================ C11 ================================== *)
\* The exceptions with which the three clients report a host that does not
\* resolve.
NetworkFailures == {"NameResolutionError", "URLError", "ClientConnectorError"}

Unresolvable(i) == Endpoint(URLS[i]).kind = "noname"

\* C11: in each of the three cells a target whose host does not resolve is
\* reported by a failure line of its own carrying a network failure, never
\* by a success line; when a batch with such a target has finished, that
\* target and every other target have exactly one line, the others' lines
\* being the ones their own fetches determine.
C11_UnresolvableHost ==
    /\ \A c \in CellNames : \A p \in 1..Len(stdout[c]) :
          LET l == stdout[c][p] IN
          Unresolvable(l.idx) =>
              (~l.ok /\ l.exc \in NetworkFailures /\ l.url = URLS[l.idx])
    /\ \A c \in CellNames :
          (CellDone(c) /\ \E i \in Units : Unresolvable(i)) =>
              \A j \in Units :
                  /\ Cardinality(LinesOf(c, j)) = 1
                  /\ ~Unresolvable(j) => LineOf(c, j) = OwnLine(c, j)

C11_Witness ==
    /\ NotebookDone /\ N = 2
    /\ \E i, j \in Units :
          /\ Unresolvable(i) /\ Endpoint(URLS[j]).kind = "ok"
          /\ \A c \in CellNames : ~LineOf(c, i).ok /\ LineOf(c, j).ok

(* ================================ C12 ================================== *)
\* C12: in the thread-pool cell at most max_workers (at most 5) fetches are
\* in flight in every state; while max_workers fetches are in flight no
\* queued target is started; under fair scheduling every queued target is
\* eventually started and reported.
C12_BoundedConcurrency ==
    /\ [](cell = "parallel" =>
            /\ Cardinality(Running) <= max_workers
            /\ max_workers <= MaxWorkers
            /\ (Cardinality(Running) = max_workers => ~ENABLED WorkerStart))
    /\ \A i \in 1..MaxTargets :
          (cell = "parallel" /\ i \in Units /\ state[i] = "pending")
             ~> (cell = "parallel" /\ i \in Units /\ state[i] = "running")
    /\ \A i \in 1..MaxTargets :
          (cell = "parallel" /\ i \in Units /\ state[i] = "pending")
             ~> (cell = "parallel" /\ i \in Units /\ state[i] = "reported")

\* The pool is exhausted and a target waits for a worker.
C12_Witness ==
    /\ cell = "parallel"
    /\ Cardinality(Running) = max_workers
    /\ \E i \in Units : state[i] = "pending"
(* ================================ C13 ================================== *)
\* The (target, outcome) pairs reported by cell c: success/failure class
\* and byte count of each target.
Pairs(c) ==
    {<<stdout[c][p].idx, stdout[c][p].url, stdout[c][p].ok, stdout[c][p].bytes>> :
        p \in 1..Len(stdout[c])}

\* The pairs the thread-pool cell reports at the end of its batch do not
\* depend on max_workers: they are the ones urlopen determines per target.
PoolSizeIrrelevant ==
    CellDone("parallel") =>
        Pairs("parallel") =
            {<<i, URLS[i], ~urlopen(URLS[i]).raises,
               IF urlopen(URLS[i]).raises THEN 0 ELSE Endpoint(URLS[i]).size>> :
                i \in Units}

\* C13 as claimed: for the same targets and endpoints the set of (target,
\* outcome) pairs at the end of the batch is the same for every pool size
\* and for the unbounded cooperative (asyncio) cell.
C13_BoundKeepsOutcomes ==
    /\ PoolSizeIrrelevant
    /\ NotebookDone => Pairs("parallel") = Pairs("async")

(* ================================ C14 ================================== *)
\* C14: whatever interleaving and completion order the scheduler picks,
\* the success/failure class printed for a target is the one fixed by the
\* list, the endpoints and the cell's client alone, and a finished batch
\* has exactly one line per target; hence two runs of the same batch give
\* every target the same class.
C14_ScheduleIndependentClass ==
    \A c \in CellNames :
        /\ \A p \in 1..Len(stdout[c]) :
              stdout[c][p].ok = ~Client(c, URLS[stdout[c][p].idx]).raises
        /\ CellDone(c) =>
              \A i \in Units :
                  /\ Cardinality(LinesOf(c, i)) = 1
                  /\ LineOf(c, i).ok = ~Client(c, URLS[i]).raises

\* A run of the thread-pool cell in which the targets, one succeeding and
\* one failing, completed and were reported against the input order.
C14_Witness ==
    /\ cell = "parallel" /\ pc = "done" /\ N = 2
    /\ completed = <<2, 1>>
    /\ PosOf(2) < PosOf(1)
    /\ LineOf("parallel", 1).ok # LineOf("parallel", 2).ok
(* ================================ C15 ================================== *)
\* A step of unit i itself in a concurrent cell: its fetch starts, or its
\* fetch ends (body read, error, timeout).
UnitStep(i) ==
    /\ cell \in Concurrent /\ cell' = cell
    /\ \/ state[i] # "running" /\ state'[i] = "running"
       \/ state[i] = "running" /\ state'[i] # "running"

\* State, stored result and printed lines of every other unit are kept.
OtherSlotsKept(i) ==
    \A j \in Units \ {i} :
        /\ state'[j] = state[j]
        /\ result'[j] = result[j]
        /\ \A p \in LinesOf(cell, j) :
              p <= Len(stdout'[cell]) /\ stdout'[cell][p] = stdout[cell][p]
        /\ {p \in 1..Len(stdout'[cell]) : stdout'[cell][p].idx = j} = LinesOf(cell, j)

\* C15 as claimed: a step of a unit keeps every other unit's slots, and no
\* piece of state is written by more than one unit: a unit does not write
\* the output another unit has already written to.
C15_NoSharedWrites ==
    [][\A i \in Units : UnitStep(i) =>
          /\ OtherSlotsKept(i)
          /\ (\E j \in Units \ {i} : LinesOf(cell, j) # {}) => stdout' = stdout]_vars

\* C15 amended: a step of a unit keeps every other unit's state, stored
\* result and printed lines.  The console (asyncio cell), the executor's
\* work queue and the waiter's list of finished futures (thread-pool cell)
\* are written by the steps of several units, but a unit only appends its
\* own line, leaves the queue, or appends itself to the waiter's list; the
\* pool threads never print, and nothing else changes.
C15_OwnEntriesOnly ==
    [][\A i \in Units : UnitStep(i) =>
          /\ OtherSlotsKept(i)
          /\ \/ stdout' = stdout
             \/ /\ cell = "async"
                /\ \E l \in {OwnLine("async", i)} : stdout' = print("async", l)
          /\ \/ work_queue' = work_queue
             \/ work_queue = <<i>> \o work_queue'
          /\ \/ finished_futures' = finished_futures
             \/ cell = "parallel" /\ finished_futures' = Append(finished_futures, i)
          /\ UNCHANGED <<URLS, max_workers, pc, k, waiter_installed, finished,
                         pending, raised, done_at_call>>]_vars

\* In the asyncio cell two units have both written to the console.
C15_Witness ==
    /\ cell = "async" /\ N = 2
    /\ LinesOf("async", 1) # {} /\ LinesOf("async", 2) # {}
(* ================================ C16 ================================== *)
Range(s) == {s[p] : p \in 1..Len(s)}

\* C16 as claimed: no outcome that has been reported is still held.
C16_NoRetention ==
    \A i \in Units : state[i] = "reported" => result[i] = NoResult

\* C16 amended: the serial and asyncio cells store no outcome at all (an
\* outcome lives only inside load_url); in the thread-pool cell
\* as_completed forgets a future when it yields it, but the future keeps
\* its result in future_to_url after its outcome was reported, through the
\* end of the cell and the rest of the notebook.
C16_RetainedInFutureToUrl ==
    /\ cell = "serial" => \A i \in Units : result[i] = NoResult
    /\ cell = "parallel" => \A i \in Units :
          /\ state[i] \in {"finished", "reported"} => result[i] = urlopen(URLS[i])
          /\ state[i] \notin {"finished", "reported"} => result[i] = NoResult
          /\ state[i] = "reported" =>
                (i \notin pending /\ i \notin Range(finished)
                   /\ i \notin Range(finished_futures))
    /\ cell = "async" => \A i \in Units : result[i] = urlopen(URLS[i])

\* A reported outcome is still held while another unit is in flight.
C16_Witness ==
    /\ cell = "parallel"
    /\ \E i, j \in Units :
          /\ state[i] = "reported" /\ result[i] # NoResult
          /\ state[j] = "running"
(* ================================ C17 ================================== *)
\* as_completed, when called, lists x to be yielded before y (futures are
\* popped from the end of the list).
ListedBefore(x, y) ==
    \E p, q \in 1..Len(finished') : finished'[p] = x /\ finished'[q] = y /\ p > q

\* C17: wherever the concurrent cells decide the order of two targets, both
\* orders are open: two fetches in flight can end in either order (thread
\* pool and asyncio), and two futures already finished when as_completed is
\* called can be listed in either order.  So a run reporting the earlier
\* target first and a run reporting the later target first both exist.
C17_OrderNotTiedToInput ==
    \A i, j \in Units : i < j =>
        /\ (cell = "parallel" /\ state[i] = "running" /\ state[j] = "running")
              => (ENABLED WorkerFinish(i) /\ ENABLED WorkerFinish(j))
        /\ (cell = "async" /\ pc = "await" /\ work_queue = <<>>
              /\ state[i] = "running" /\ state[j] = "running")
              => (ENABLED AsyncLoadUrl(i) /\ ENABLED AsyncLoadUrl(j))
        /\ (cell = "parallel" /\ pc = "submit" /\ k > N
              /\ state[i] = "finished" /\ state[j] = "finished")
              => /\ ENABLED (AsCompleted /\ ListedBefore(i, j))
                 /\ ENABLED (AsCompleted /\ ListedBefore(j, i))

\* With a single worker, where the fetches end in input order, the later
\* target is reported first.
C17_Witness ==
    /\ cell = "parallel" /\ max_workers = 1 /\ N = 2
    /\ completed = <<1, 2>>
    /\ PosOf(2) = 1 /\ PosOf(1) = 2

(* ================================ C18 ================================== *)
\* C18: in the serial cell at most one fetch is in flight, a target's fetch
\* is not started before the previous target's outcome is printed, the
\* lines are printed in input order, and a failing target does not stop
\* the loop: the finished cell has printed a line for every target.
C18_SerialOrder ==
    /\ cell = "serial" =>
          /\ Cardinality(Running) <= 1
          /\ \A i \in Units : (i > 1 /\ state[i] # "new") =>
                (state[i - 1] = "reported" /\ LinesOf("serial", i - 1) # {})
    /\ \A p \in 1..Len(stdout["serial"]) : stdout["serial"][p].idx = p
    /\ CellDone("serial") => Len(stdout["serial"]) = N

\* The first target failed and the second was still fetched and reported.
C18_Witness ==
    /\ cell = "serial" /\ pc = "done" /\ N = 2
    /\ ~stdout["serial"][1].ok
    /\ stdout["serial"][2].ok
====
